---- MODULE Spec2Model ----
(***************************************************************************)
(* Model of the Entra ID log simulator (src/entra/entra_simulator.py):     *)
(* EntraLogSimulator.generate_logs and EntraLogSimulator._render_template. *)
(*                                                                         *)
(* Init is the simulator after __init__ (configuration loaded); Call       *)
(* starts one generate_logs invocation; the remaining actions are the      *)
(* steps of its while loop.  An iteration is two steps: the actor draw     *)
(* (lines 154-164, pc "loop" -> "select") and the operation choice with    *)
(* rendering, append and clock advance (lines 166-198, "select" -> "loop").*)
(*                                                                         *)
(* Random draws (random.random, random.choice, random.randint) and the     *)
(* wall clock are inputs chosen with \E.                                   *)
(***************************************************************************)
EXTENDS Integers, Sequences, FiniteSets, TLC

(* ------------------------------ bounds ------------------------------- *)

\* Largest record count a call requests (total_logs ranges over -1..MaxLogs).
MaxLogs == 2

\* Largest number of build_email_block calls kept in the history.
MaxMails == 2

(* ------------------------- program constants ------------------------- *)

\* random.randint(15, 45): the jitter range in seconds.
JitterMin == 15
JitterMax == 45

\* Python's None for the optional string arguments.
None == "<None>"

\* The fallback identifier of app_id_map.get(app_display, ...).
ZeroAppId == "00000000-0000-0000-0000-000000000000"

(* --------------------------- configuration --------------------------- *)
(* The YAML files are external inputs.  The enumerated configurations are  *)
(* well-formed: every entity carries the fields its kind requires.         *)

Alice ==
    [user_id |-> "alice@contoso.com", roles |-> <<"admin">>,
     ip |-> "10.0.0.1", city |-> "Seattle", country |-> "US",
     asn |-> "AS8075", asn_name |-> "MICROSOFT", is_proxy |-> FALSE,
     device_id |-> "device-001", os |-> "Windows 11", browser |-> "Edge",
     user_agent |-> "Mozilla/5.0 (Windows NT 10.0)"]

Bob ==
    [user_id |-> "bob@partner.com", roles |-> <<"member", "guest">>,
     ip |-> "10.0.0.2", city |-> "Austin", country |-> "US",
     asn |-> "AS7018", asn_name |-> "ATT-INTERNET4", is_proxy |-> TRUE,
     device_id |-> "device-002", os |-> "macOS", browser |-> "Safari",
     user_agent |-> "Mozilla/5.0 (Macintosh)"]

\* A user entry without a "roles" key (entity.get("roles", []) falls back).
Carol ==
    [user_id |-> "carol@contoso.com",
     ip |-> "10.0.0.3", city |-> "Boston", country |-> "US",
     asn |-> "AS7922", asn_name |-> "COMCAST", is_proxy |-> FALSE,
     device_id |-> "device-003", os |-> "Ubuntu", browser |-> "Firefox",
     user_agent |-> "Mozilla/5.0 (X11; Linux)"]

Spn1 ==
    [spn_id |-> "spn-backup-agent",
     ip |-> "20.1.1.1", city |-> "Dublin", country |-> "IE",
     asn |-> "AS8075", asn_name |-> "MICROSOFT", is_proxy |-> FALSE]

\* The user lists a run may be configured with.
UserLists == { <<Alice, Bob>>, <<Carol>> }

ConfigServicePrincipals == <<Spn1>>

OpSignIn ==
    [name |-> "InteractiveUserSignIn", app_display_name |-> "Azure Portal",
     auth_requirement |-> "MultiFactorAuthentication", mfa_required |-> TRUE]

\* An operation without the optional auth_requirement / mfa_required keys.
OpSendMail ==
    [name |-> "SendMail", app_display_name |-> "Exchange Online"]

OpSpnSignIn ==
    [name |-> "SignInWithServicePrincipal", app_display_name |-> "Microsoft Graph",
     auth_requirement |-> "None", mfa_required |-> FALSE]

\* The operations catalogues a run may be configured with.
OperationCatalogues ==
    { <<OpSignIn, OpSendMail, OpSpnSignIn>>,
      <<OpSignIn, OpSendMail>>,
      <<OpSpnSignIn>>,
      <<>> }

AppsComplete ==
    [a \in {"Azure Portal", "Exchange Online", "Microsoft Graph", "Contoso Phish Portal"} |->
        CASE a = "Azure Portal" -> "c44b4083-3bb0-49c1-b47d-974e53cbdf3c"
          [] a = "Exchange Online" -> "00000002-0000-0ff1-ce00-000000000000"
          [] a = "Microsoft Graph" -> "00000003-0000-0000-c000-000000000000"
          [] OTHER -> "f3b8a0c7-0d6d-4f0f-9a6c-2f1e3e8b9f77"]

\* An application map that lacks "Exchange Online" and "Contoso Phish Portal".
AppsPartial ==
    [a \in {"Azure Portal", "Microsoft Graph"} |-> AppsComplete[a]]

ApplicationMaps == {AppsComplete, AppsPartial}

OrgConfig ==
    [org_id |-> "org-contoso-001", record_type |-> 15, result_type |-> 0,
     result_status |-> "Success"]

\* self.operation_resource_map
OperationResourceMap ==
    [n \in {"InteractiveUserSignIn", "TokenIssued", "SendMail", "FileAccessed",
            "AddMemberToGroup", "RemoveMemberFromGroup", "CreateTeam", "DeleteFile",
            "DownloadFile", "ViewSharePointPage", "UpdateCalendar", "ShareFile",
            "CreateChannel", "JoinMeeting", "CreateUser", "DeleteUser",
            "ResetPassword", "AddServicePrincipal", "SignInWithServicePrincipal",
            "ConsentToApp"} |->
        CASE n \in {"InteractiveUserSignIn", "TokenIssued", "CreateUser", "DeleteUser",
                    "ResetPassword", "ConsentToApp"} -> "UserAccount"
          [] n = "SendMail" -> "MailItem"
          [] n \in {"FileAccessed", "DeleteFile", "DownloadFile", "ShareFile"} -> "File"
          [] n \in {"AddMemberToGroup", "RemoveMemberFromGroup"} -> "Group"
          [] n = "CreateTeam" -> "Team"
          [] n = "ViewSharePointPage" -> "Page"
          [] n = "UpdateCalendar" -> "CalendarEvent"
          [] n = "CreateChannel" -> "Channel"
          [] n = "JoinMeeting" -> "Meeting"
          [] OTHER -> "ServicePrincipal"]

(* ------------------------------ inputs ------------------------------- *)

\* A datetime: whole seconds and microseconds.
StartTime == [sec |-> 1000, usec |-> 500000]

\* datetime.now(timezone.utc), read when simulate_start_time is None.
WallClock == [sec |-> 5000, usec |-> 250000]

\* simulate_start_time: <<>> is None, <<t>> a given datetime.
StartTimeArgs == {<<>>, <<StartTime>>}

TotalLogsArgs == (-1)..MaxLogs

ForceUserArgs == {None, "", "alice@contoso.com", "ghost@contoso.com"}

ForceAppArgs == {None, "Contoso Phish Portal"}

ForceOperationArgs == {None, "InteractiveUserSignIn", "SignInWithServicePrincipal"}

(* ------------------------------- state ------------------------------- *)

VARIABLES
    users,               \* self.users
    service_principals,  \* self.service_principals
    operations,          \* self.operations
    app_id_map,          \* self.app_id_map
    org_config,          \* self.org_config
    pc,                  \* "idle", "loop", "select", "returned", "raised"
    total_logs, simulate_start_time, include_failures,
    force_user, force_app, force_operation, is_attack,   \* the call's arguments
    logs,                \* the list being built
    current_time,        \* the simulated clock
    is_spn, entity,      \* locals of the loop body
    error,               \* the exception that ended the call
    calls,               \* history: the arguments of every _render_template call
    skipped,             \* history: some iteration of this call hit "continue"
    scenario,            \* the scenario injector run last ("none" before any)
    username,            \* its --username argument
    status,              \* "idle", "running", "written", "raised"
    output,              \* the records written to its output file
    inj_error,           \* the exception that ended it
    derived,             \* its copied-and-overridden entity (attacker, user_for_render)
    emails               \* history: the build_email_block calls of BuildEmail

config == <<users, service_principals, operations, app_id_map, org_config>>

args == <<total_logs, simulate_start_time, include_failures,
          force_user, force_app, force_operation, is_attack>>

\* The state of the scenario injectors.
scen == <<scenario, username, status, output, inj_error, derived, emails>>

vars == <<config, args, pc, logs, current_time, is_spn, entity, error, calls, skipped,
          scen>>

NoEntity == [unset |-> TRUE]

NoError == [type |-> "none", what |-> "", name |-> ""]

(* ------------------------- pure helper functions --------------------- *)

\* Python truthiness of an optional string: None and "" are both falsy.
Truthy(s) == s # None /\ s # ""

\* The first element of seq whose position is in hits, as a set ({} when none):
\* next((x for x in seq if ...), None).
FirstOf(seq, hits) ==
    IF hits = {} THEN {}
    ELSE {seq[CHOOSE i \in hits : \A j \in hits : i <= j]}

\* next((u for u in self.users if u["user_id"] == force_user), None)
FindUser(name) == FirstOf(users, {i \in DOMAIN users : users[i].user_id = name})

\* next((op for op in self.operations if op["name"] == force_operation), None)
FindOperation(name) ==
    FirstOf(operations, {i \in DOMAIN operations : operations[i].name = name})

\* "ServicePrincipal" in op["name"]: the substring test, over the operation names
\* of the resource map and the catalogues.
ContainsServicePrincipal(name) ==
    name \in {"SignInWithServicePrincipal", "AddServicePrincipal"}

\* [op for op in self.operations if ("ServicePrincipal" in op["name"]) == is_spn],
\* as the set of catalogue positions kept.
OpsPool(spn) ==
    {i \in DOMAIN operations : ContainsServicePrincipal(operations[i].name) = spn}

\* current_time.strftime("%Y-%m-%dT%H:%M:%SZ"): the text keeps whole seconds and
\* drops the microseconds; the text of a second count is modelled by that count.
Strftime(t) == t.sec

\* current_time + timedelta(seconds=j)
AddSeconds(t, j) == [t EXCEPT !.sec = @ + j]

\* random.randint(a, b), sampled at both ends of the range.
RandInt(a, b) == {j \in a..b : j = a \/ j = b}

\* json.dumps(list): the JSON text of the list, an injective encoding.
JsonDumps(v) == <<"json", v>>

\* str(bool).lower()
LowerStr(b) == IF b THEN "true" ELSE "false"

\* dict.get(key, default) on a record
Get(r, key, default) == IF key \in DOMAIN r THEN r[key] ELSE default

(* -------------------------- _render_template -------------------------- *)

\* override_app={"app_display_name": force_app} if force_app else None;
\* <<>> is None, <<d>> the dict d.
OverrideApp(app) == IF Truthy(app) THEN <<[app_display_name |-> app]>> ELSE <<>>

\* Mutant of AppDisplay: the override is ignored.
AppDisplayIgnoringOverride(operation, override_app) ==
    operation.app_display_name

\* app_display = override_app["app_display_name"] if override_app
\*               else operation["app_display_name"]
AppDisplay(operation, override_app) ==
    IF override_app # <<>> THEN override_app[1].app_display_name
    ELSE operation.app_display_name

\* app_id = self.app_id_map.get(app_display, "0000...") : computed, never bound.
AppIdLocal(app_display) ==
    IF app_display \in DOMAIN app_id_map THEN app_id_map[app_display] ELSE ZeroAppId

\* "{{ app_id }}": self.app_id_map[app_display] raises KeyError on a missing key.
RenderRaisesKeyError(operation, override_app) ==
    AppDisplay(operation, override_app) \notin DOMAIN app_id_map

\* result_status = "Failure" if is_failure else self.org_config["result_status"]
ResultStatus(is_failure) ==
    IF is_failure THEN "Failure" ELSE org_config.result_status

\* roles of the actor: the fixed list for a service principal, else
\* entity.get("roles", [])
Roles(ent, spn) ==
    IF spn THEN <<"ServicePrincipal">> ELSE Get(ent, "roles", <<>>)

\* "guest" in roles
HasGuest(roles) == \E i \in DOMAIN roles : roles[i] = "guest"

\* Mutant of UserType: guests are not told apart.
UserTypeIgnoringGuest(ent, spn) ==
    IF spn THEN "2" ELSE "0"

\* user_type = "2" for a service principal, else "10" if "guest" in roles else "0"
UserType(ent, spn) ==
    IF spn THEN "2"
    ELSE IF HasGuest(Roles(ent, spn)) THEN "10" ELSE "0"

\* The record: the replacements of lines 98-128 substituted into the template,
\* one field per placeholder (the event id, a fresh uuid4, is left out).
RenderTemplate(ent, operation, timestamp, is_failure, spn, override_app) ==
    [timestamp |-> timestamp,
     operation |-> operation.name,
     org_id |-> org_config.org_id,
     record_type |-> ToString(org_config.record_type),
     result_type |-> ToString(org_config.result_type),
     user_type |-> UserType(ent, spn),
     roles |-> JsonDumps(Roles(ent, spn)),
     client_ip |-> ent.ip,
     user_id |-> IF spn THEN ent.spn_id ELSE ent.user_id,
     workload |-> "AzureActiveDirectory",
     result_status |-> ResultStatus(is_failure),
     device_id |-> IF spn THEN "spn-device" ELSE ent.device_id,
     os |-> IF spn THEN "Unknown" ELSE ent.os,
     browser |-> IF spn THEN "Unknown" ELSE ent.browser,
     user_agent |-> IF spn THEN "AzureAD-Application" ELSE ent.user_agent,
     app_id |-> app_id_map[AppDisplay(operation, override_app)],
     app_display_name |-> AppDisplay(operation, override_app),
     auth_requirement |-> Get(operation, "auth_requirement", "None"),
     mfa_required |-> LowerStr(Get(operation, "mfa_required", FALSE)),
     city |-> ent.city,
     country |-> ent.country,
     asn_number |-> ent.asn,
     asn_name |-> ent.asn_name,
     is_proxy |-> LowerStr(ent.is_proxy),
     resource |-> Get(OperationResourceMap, operation.name, "Unknown"),
     email_sender |-> Get(ent, "email_sender", "attacker@evil.com"),
     email_subject |-> Get(ent, "email_subject", "Security Notice: Action Required"),
     email_url |-> Get(ent, "email_url",
                       "https://login.microsoftonline.com-reset-verify.com")]

\* The arguments of one _render_template call, as kept in the history.
RenderCall(ent, operation, timestamp, is_failure, spn, override_app) ==
    [entity |-> ent, operation |-> operation, timestamp |-> timestamp,
     is_failure |-> is_failure, is_spn |-> spn, override_app |-> override_app]

(* ----------------------------- generate_logs -------------------------- *)

\* Mutant of LoopCond: an off-by-one loop test.
LoopCondInclusive(n, total) == n <= total

\* while len(logs) < total_logs
LoopCond(n, total) == n < total

\* Mutant of Jitter: a range that starts at zero.
JitterFromZero == RandInt(0, JitterMax)

\* random.randint(15, 45)
Jitter == RandInt(JitterMin, JitterMax)

\* Mutant of IsFailure: the operation name is not tested.
IsFailureAnyOperation(enabled, opname, spn, coin) ==
    enabled /\ ~spn /\ coin

\* is_failure = include_failures and name == "InteractiveUserSignIn"
\*              and not is_spn and random.random() < 0.15
IsFailure(enabled, opname, spn, coin) ==
    enabled /\ opname = "InteractiveUserSignIn" /\ ~spn /\ coin

\* The operations an iteration may apply: the forced one, else any of the pool.
OperationChoices ==
    IF Truthy(force_operation) THEN FindOperation(force_operation)
    ELSE {operations[i] : i \in OpsPool(is_spn)}

\* The (is_spn, actor id) pairs one pass through lines 154-164 can produce.
ActorChoices ==
    IF Truthy(force_user)
    THEN {<<FALSE, u.user_id>> : u \in FindUser(force_user)}
    ELSE {<<TRUE, service_principals[i].spn_id>> : i \in DOMAIN service_principals}
         \cup {<<FALSE, users[i].user_id>> : i \in DOMAIN users}

\* The failure flags lines 181-186 can produce for an operation name.
FailureFlags(opname) ==
    {IsFailure(include_failures, opname, is_spn, coin) : coin \in BOOLEAN}

Init ==
    /\ users \in UserLists
    /\ service_principals = ConfigServicePrincipals
    /\ operations \in OperationCatalogues
    /\ app_id_map \in ApplicationMaps
    /\ org_config = OrgConfig
    /\ pc = "idle"
    /\ total_logs = 0
    /\ simulate_start_time = <<>>
    /\ include_failures = FALSE
    /\ force_user = None
    /\ force_app = None
    /\ force_operation = None
    /\ is_attack = FALSE
    /\ logs = <<>>
    /\ current_time = WallClock
    /\ is_spn = FALSE
    /\ entity = NoEntity
    /\ error = NoError
    /\ calls = <<>>
    /\ skipped = FALSE
    /\ scenario = "none"
    /\ username = None
    /\ status = "idle"
    /\ output = <<>>
    /\ inj_error = NoError
    /\ derived = NoEntity
    /\ emails = <<>>

\* generate_logs(...) is entered: lines 147-151.
Call ==
    /\ pc = "idle"
    /\ total_logs' \in TotalLogsArgs
    /\ simulate_start_time' \in StartTimeArgs
    /\ include_failures' \in BOOLEAN
    /\ force_user' \in ForceUserArgs
    /\ force_app' \in ForceAppArgs
    /\ force_operation' \in ForceOperationArgs
    /\ is_attack' \in BOOLEAN
    /\ logs' = <<>>
    /\ current_time' = IF simulate_start_time' = <<>> THEN WallClock
                       ELSE simulate_start_time'[1]
    /\ pc' = "loop"
    /\ UNCHANGED <<config, is_spn, entity, error, calls, skipped>>
    /\ UNCHANGED scen

\* The while condition fails: return logs (line 200).
Return ==
    /\ pc = "loop"
    /\ ~LoopCond(Len(logs), total_logs)
    /\ pc' = "returned"
    /\ UNCHANGED <<config, args, logs, current_time, is_spn, entity, error, calls, skipped>>
    /\ UNCHANGED scen

\* Lines 154-160, force_user found: the actor is that user.
PickForcedUser ==
    /\ pc = "loop"
    /\ LoopCond(Len(logs), total_logs)
    /\ Truthy(force_user)
    /\ \E u \in FindUser(force_user) :
          /\ entity' = u
          /\ is_spn' = FALSE
    /\ pc' = "select"
    /\ UNCHANGED <<config, args, logs, current_time, error, calls, skipped>>
    /\ UNCHANGED scen

\* Lines 154-159, force_user not found: raise ValueError naming it.
RaiseUserNotFound ==
    /\ pc = "loop"
    /\ LoopCond(Len(logs), total_logs)
    /\ Truthy(force_user)
    /\ FindUser(force_user) = {}
    /\ is_spn' \in BOOLEAN
    /\ error' = [type |-> "ValueError", what |-> "User", name |-> force_user]
    /\ pc' = "raised"
    /\ UNCHANGED <<config, args, logs, current_time, entity, calls, skipped>>
    /\ UNCHANGED scen

\* Lines 154, 161-162: the coin says service principal.
PickSpn ==
    /\ pc = "loop"
    /\ LoopCond(Len(logs), total_logs)
    /\ ~Truthy(force_user)
    /\ is_spn' = TRUE
    /\ \E i \in DOMAIN service_principals : entity' = service_principals[i]
    /\ pc' = "select"
    /\ UNCHANGED <<config, args, logs, current_time, error, calls, skipped>>
    /\ UNCHANGED scen

\* Lines 154, 163-164: the coin says user.
PickUser ==
    /\ pc = "loop"
    /\ LoopCond(Len(logs), total_logs)
    /\ ~Truthy(force_user)
    /\ is_spn' = FALSE
    /\ \E i \in DOMAIN users : entity' = users[i]
    /\ pc' = "select"
    /\ UNCHANGED <<config, args, logs, current_time, error, calls, skipped>>
    /\ UNCHANGED scen

\* Lines 166-169, force_operation not found: raise ValueError naming it.
RaiseOperationNotFound ==
    /\ pc = "select"
    /\ Truthy(force_operation)
    /\ FindOperation(force_operation) = {}
    /\ error' = [type |-> "ValueError", what |-> "Operation", name |-> force_operation]
    /\ pc' = "raised"
    /\ UNCHANGED <<config, args, logs, current_time, is_spn, entity, calls, skipped>>
    /\ UNCHANGED scen

\* Mutant of Skip: the skipped iteration still advances the clock.
SkipAdvancingClock ==
    /\ pc = "select"
    /\ ~Truthy(force_operation)
    /\ OpsPool(is_spn) = {}
    /\ skipped' = TRUE
    /\ current_time' = AddSeconds(current_time, JitterMin)
    /\ pc' = "loop"
    /\ UNCHANGED <<config, args, logs, is_spn, entity, error, calls>>
    /\ UNCHANGED scen

\* Lines 171-176, the pool of the drawn class is empty: continue.
Skip ==
    /\ pc = "select"
    /\ ~Truthy(force_operation)
    /\ OpsPool(is_spn) = {}
    /\ skipped' = TRUE
    /\ pc' = "loop"
    /\ UNCHANGED <<config, args, logs, current_time, is_spn, entity, error, calls>>
    /\ UNCHANGED scen

\* Lines 166-198 with the rendering returning: append the record, advance the clock.
Emit ==
    /\ pc = "select"
    /\ \E operation \in OperationChoices, coin \in BOOLEAN, j \in Jitter :
          LET timestamp == Strftime(current_time)
              is_failure == IsFailure(include_failures, operation.name, is_spn, coin)
              override_app == OverrideApp(force_app)
          IN  /\ ~RenderRaisesKeyError(operation, override_app)
              /\ calls' = Append(calls, RenderCall(entity, operation, timestamp,
                                                   is_failure, is_spn, override_app))
              /\ logs' = Append(logs, RenderTemplate(entity, operation, timestamp,
                                                     is_failure, is_spn, override_app))
              /\ current_time' = AddSeconds(current_time, j)
    /\ pc' = "loop"
    /\ UNCHANGED <<config, args, is_spn, entity, error, skipped>>
    /\ UNCHANGED scen

\* Lines 166-195 with the rendering raising KeyError (line 114): the call ends.
RenderKeyError ==
    /\ pc = "select"
    /\ \E operation \in OperationChoices, coin \in BOOLEAN :
          LET timestamp == Strftime(current_time)
              is_failure == IsFailure(include_failures, operation.name, is_spn, coin)
              override_app == OverrideApp(force_app)
          IN  /\ RenderRaisesKeyError(operation, override_app)
              /\ calls' = Append(calls, RenderCall(entity, operation, timestamp,
                                                   is_failure, is_spn, override_app))
              /\ error' = [type |-> "KeyError", what |-> "app_id_map",
                           name |-> AppDisplay(operation, override_app)]
    /\ pc' = "raised"
    /\ UNCHANGED <<config, args, logs, current_time, is_spn, entity, skipped>>
    /\ UNCHANGED scen

Next ==
    \/ Call
    \/ Return
    \/ PickForcedUser
    \/ RaiseUserNotFound
    \/ PickSpn
    \/ PickUser
    \/ RaiseOperationNotFound
    \/ Skip
    \/ Emit
    \/ RenderKeyError

Spec == Init /\ [][Next]_vars

(* ------------------- mail_received.py: build_email_block -------------- *)

\* dict.update / dict(d, **o): the keys of o override those of d.
Update(d, o) ==
    [k \in DOMAIN d \cup DOMAIN o |-> IF k \in DOMAIN o THEN o[k] ELSE d[k]]

\* safe_hashes(seed): the md5 and sha256 hex digests of the seed's bytes, each a
\* fixed function of the seed, kept as the seed under the digest's name.
SafeHashes(seed) == [md5 |-> <<"md5", seed>>, sha256 |-> <<"sha256", seed>>]

\* recipient.split('@')[0], over the recipients in use.
LocalPart(address) ==
    CASE address = "alice@contoso.com" -> "alice"
      [] address = "carol@contoso.com" -> "carol"
      [] address = "ghost@contoso.com" -> "ghost"
      [] OTHER -> address

\* attach_name.split(".")[-1] if "." in attach_name else "", over the names in use.
Extension(name) ==
    CASE name = "Review_Security_Alert.html" -> "html"
      [] name = "invoice.2024.pdf" -> "pdf"
      [] OTHER -> ""

\* Lines 34-78 with the digest seed given: the e-mail block of arguments a and
\* the drawn message id.
EmailBlockFromSeed(a, message_id, seed) ==
    LET email_block ==
            [Sender |-> a.sender,
             Recipients |-> <<a.recipient>>,
             CC |-> <<>>,
             BCC |-> <<>>,
             Subject |-> a.subject,
             Data |-> "Heads up! We detected an unusual sign-in attempt.\n\nReview: "
                      \o a.url \o "\n",
             Mime |-> "multipart/alternative; boundary=\"----=_Part_12345_67890.1693673950\"",
             ReturnPath |-> a.return_path,
             MessageId |-> "<" \o message_id \o "@security.microsoft.com>",
             DeliveryTime |-> a.delivery_time_iso,
             OriginationTime |-> a.origination_time_iso]
        directory == "/Users/" \o LocalPart(a.recipient) \o "/Library/Mail/Attachments/"
        hashes == SafeHashes(seed)
    IN  IF a.include_attachment
        THEN Update(email_block,
                    [Attachment |->
                        [filename |-> a.attach_name,
                         path |-> directory \o a.attach_name,
                         directory |-> directory,
                         extension |-> Extension(a.attach_name),
                         file_type |-> a.attach_mime,
                         md5 |-> hashes.md5,
                         sha256 |-> hashes.sha256,
                         is_signed |-> FALSE,
                         signer |-> "",
                         signature_status |-> "UNSIGNED",
                         size |-> a.attach_size]])
        ELSE email_block

\* Mutant of BuildEmailBlock: the per-call message id salts the digest seed.
BuildEmailBlockSalted(a, message_id) ==
    EmailBlockFromSeed(a, message_id, message_id \o a.subject \o a.url \o a.attach_name)

\* build_email_block: md5, sha256 = safe_hashes(subject + url + attach_name)
BuildEmailBlock(a, message_id) ==
    EmailBlockFromSeed(a, message_id, a.subject \o a.url \o a.attach_name)

\* uuid.uuid4() of line 34, two possible draws.
MessageIds == {"uuid-1", "uuid-2"}

\* The inputs that the digests are not meant to depend on, varied together.
Envelopes ==
    { [recipient |-> "alice@contoso.com", sender |-> "alerts@security.microsoft.com",
       time |-> 4000, mime |-> "text/html", size |-> 4821],
      [recipient |-> "carol@contoso.com", sender |-> "it-support@contoso.com",
       time |-> 7000, mime |-> "application/pdf", size |-> 99] }

Subjects == {"Unusual Sign-in Attempt Detected", "Security Notice: Action Required"}

Urls == {"https://login.microsoftonline.com-reset-verify.com/session",
         "https://contoso-sso.example/reset"}

AttachNames == {"Review_Security_Alert.html", "README"}

\* The keyword arguments of a build_email_block call.
EmailArgs ==
    { [recipient |-> e.recipient, sender |-> e.sender, subject |-> s, url |-> u,
       delivery_time_iso |-> e.time, origination_time_iso |-> e.time,
       include_attachment |-> inc, attach_name |-> n, attach_mime |-> e.mime,
       attach_size |-> e.size, return_path |-> "<bounce@contoso.com>"] :
      e \in Envelopes, s \in Subjects, u \in Urls, inc \in BOOLEAN, n \in AttachNames }

\* One build_email_block call on freely chosen arguments.
BuildEmail ==
    /\ Len(emails) < MaxMails
    /\ \E a \in EmailArgs, id \in MessageIds :
          emails' = Append(emails, [args |-> a, message_id |-> id,
                                    block |-> BuildEmailBlock(a, id)])
    /\ UNCHANGED <<config, args, pc, logs, current_time, is_spn, entity, error, calls,
                   skipped, scenario, username, status, output, inj_error, derived>>

MailInit ==
    /\ Init
    /\ users = <<Carol>>
    /\ operations = <<>>
    /\ app_id_map = AppsComplete

MailNext == BuildEmail

\* build_email_block applied to sequences of argument sets.
MailSpec == MailInit /\ [][MailNext]_vars

(* -------------------------- scenario injectors ------------------------ *)

OpTokenIssued ==
    [name |-> "TokenIssued", app_display_name |-> "Exchange Online",
     auth_requirement |-> "SingleFactorAuthentication", mfa_required |-> FALSE]

OpMailReceived ==
    [name |-> "MailReceived", app_display_name |-> "Exchange Online"]

OpConsentToApp ==
    [name |-> "ConsentToApp", app_display_name |-> "Azure Portal",
     auth_requirement |-> "SingleFactorAuthentication", mfa_required |-> FALSE]

\* The operations catalogues of the scenario runs: one with every operation the
\* injectors look up, one without InteractiveUserSignIn, MailReceived and
\* ConsentToApp, one without TokenIssued and any service-principal operation.
ScenarioCatalogues ==
    { <<OpSignIn, OpTokenIssued, OpMailReceived, OpConsentToApp, OpSpnSignIn>>,
      <<OpTokenIssued, OpSpnSignIn>>,
      <<OpSignIn, OpSendMail>> }

\* The --username arguments: configured in one user list or the other, or in none.
Usernames == {"alice@contoso.com", "carol@contoso.com", "ghost@contoso.com"}

\* The position in self.users of the dict that next(...) returns for the name.
UserIndex(name) ==
    LET hits == {i \in DOMAIN users : users[i].user_id = name}
    IN  CHOOSE i \in hits : \A j \in hits : i <= j

\* Mutant of DictCopy: no copy is taken, the name is bound to the list's own dict.
DictAlias(i) == i

\* user.copy(): a new dict, at no position of self.users (0).
DictCopy(i) == 0

\* self.users after target.update(o): a copy (0) leaves the list alone, the
\* list's own dict at position target is changed in place.
UsersAfterUpdate(target, o) ==
    IF target = 0 THEN users
    ELSE [users EXCEPT ![target] = Update(@, o)]

\* What an injector run leaves behind.
Outcome(st, err, out, ent, us) ==
    [status |-> st, error |-> err, output |-> out, derived |-> ent, users |-> us]

\* inject_token_theft.py lines 32-43
AttackerOverrides ==
    [ip |-> "203.0.113.99", os |-> "Kali Linux", browser |-> "Unknown",
     device_id |-> "device-attacker", user_agent |-> "curl/8.1.0",
     city |-> "Moscow", country |-> "RU", asn |-> "AS12389",
     asn_name |-> "Rostelecom", is_proxy |-> TRUE]

\* generate_token_theft_logs(simulator, username, output_path) at wall-clock now.
TokenTheftOutcome(name, now) ==
    IF FindUser(name) = {}
    THEN Outcome("raised", [type |-> "ValueError", what |-> "User", name |-> name],
                 <<>>, NoEntity, users)
    ELSE IF FindOperation("TokenIssued") = {}
    THEN Outcome("raised", [type |-> "StopIteration", what |-> "Operation",
                            name |-> "TokenIssued"], <<>>, NoEntity, users)
    ELSE IF FindOperation("InteractiveUserSignIn") = {}
    THEN Outcome("raised", [type |-> "StopIteration", what |-> "Operation",
                            name |-> "InteractiveUserSignIn"], <<>>, NoEntity, users)
    ELSE
      LET i == UserIndex(name)
          user == users[i]
          token_ts == Strftime(now)
          signin_ts == Strftime(AddSeconds(now, 3 * 60))
          token_op == CHOOSE op \in FindOperation("TokenIssued") : TRUE
          signin_op == CHOOSE op \in FindOperation("InteractiveUserSignIn") : TRUE
      IN  IF RenderRaisesKeyError(token_op, <<>>)
          THEN Outcome("raised", [type |-> "KeyError", what |-> "app_id_map",
                                  name |-> AppDisplay(token_op, <<>>)],
                       <<>>, NoEntity, users)
          ELSE
            LET token_log == RenderTemplate(user, token_op, token_ts, FALSE, FALSE, <<>>)
                attacker == Update(user, AttackerOverrides)
                after == UsersAfterUpdate(DictCopy(i), AttackerOverrides)
            IN  IF RenderRaisesKeyError(signin_op, <<>>)
                THEN Outcome("raised", [type |-> "KeyError", what |-> "app_id_map",
                                        name |-> AppDisplay(signin_op, <<>>)],
                             <<>>, attacker, after)
                ELSE Outcome("written", NoError,
                             <<token_log,
                               RenderTemplate(attacker, signin_op, signin_ts,
                                              FALSE, FALSE, <<>>)>>,
                             attacker, after)

\* inject_token_theft.py main
TokenTheft ==
    /\ pc = "idle"
    /\ status # "running"
    /\ \E name \in Usernames :
          LET o == TokenTheftOutcome(name, WallClock)
          IN  /\ scenario' = "token_theft"
              /\ username' = name
              /\ status' = o.status
              /\ inj_error' = o.error
              /\ output' = o.output
              /\ derived' = o.derived
              /\ users' = o.users
    /\ UNCHANGED <<service_principals, operations, app_id_map, org_config, args, pc,
                   logs, current_time, is_spn, entity, error, calls, skipped, emails>>

\* mail_received.py lines 9-10
ExchangeOnlineAppId == "029f5f70-1642-2096-26f6-00cc4012391f"

ExchangeOnlineAppName == "Exchange Online"

\* The argparse defaults of mail_received.py for --sender, --subject and --url.
MailSender == "alerts@security.microsoft.com"

MailSubject == "Unusual Sign-in Attempt Detected - Review Immediately"

MailUrl == "https://login.microsoftonline.com-reset-verify.com/session"

\* iso_utc_now_minus(hours)
IsoUtcNowMinus(now, hours) == Strftime(AddSeconds(now, 0 - hours * 3600))

\* mail_received.py main, lines 99-189, for a drawn message id.  The setdefault
\* calls of lines 147-149 and 178-185 find their keys in the rendered template
\* and change nothing.
MailReceivedOutcome(name, no_attachment, message_id, now) ==
    IF FindUser(name) = {}
    THEN Outcome("raised", [type |-> "ValueError", what |-> "User", name |-> name],
                 <<>>, NoEntity, users)
    ELSE
      LET i == UserIndex(name)
          iso_timestamp == IsoUtcNowMinus(now, 2)
          overrides == [email_sender |-> MailSender, email_subject |-> MailSubject,
                        email_url |-> MailUrl]
          user_for_render == Update(users[i], overrides)
          after == UsersAfterUpdate(DictCopy(i), overrides)
      IN  IF FindOperation("MailReceived") = {}
          THEN Outcome("raised", [type |-> "ValueError", what |-> "Operation",
                                  name |-> "MailReceived"],
                       <<>>, user_for_render, after)
          ELSE
            LET mail_op == CHOOSE op \in FindOperation("MailReceived") : TRUE
            IN  IF RenderRaisesKeyError(mail_op, <<>>)
                THEN Outcome("raised", [type |-> "KeyError", what |-> "app_id_map",
                                        name |-> AppDisplay(mail_op, <<>>)],
                             <<>>, user_for_render, after)
                ELSE
                  LET log == RenderTemplate(user_for_render, mail_op, iso_timestamp,
                                            FALSE, FALSE, <<>>)
                      email_block ==
                          BuildEmailBlock(
                              [recipient |-> name, sender |-> MailSender,
                               subject |-> MailSubject, url |-> MailUrl,
                               delivery_time_iso |-> iso_timestamp,
                               origination_time_iso |-> iso_timestamp,
                               include_attachment |-> ~no_attachment,
                               attach_name |-> "Review_Security_Alert.html",
                               attach_mime |-> "text/html", attach_size |-> 4821,
                               return_path |-> "<bounce@contoso.com>"],
                              message_id)
                  IN  Outcome("written", NoError,
                              <<Update(log,
                                       [time |-> iso_timestamp,
                                        operation |-> "MailReceived",
                                        app_id |-> ExchangeOnlineAppId,
                                        app_display_name |-> ExchangeOnlineAppName,
                                        MaliciousLink |-> MailUrl,
                                        resource |-> "Mailbox",
                                        Email |-> email_block])>>,
                              user_for_render, after)

\* mail_received.py main
MailReceived ==
    /\ pc = "idle"
    /\ status # "running"
    /\ \E name \in Usernames, no_attachment \in BOOLEAN, id \in MessageIds :
          LET o == MailReceivedOutcome(name, no_attachment, id, WallClock)
          IN  /\ scenario' = "mail_received"
              /\ username' = name
              /\ status' = o.status
              /\ inj_error' = o.error
              /\ output' = o.output
              /\ derived' = o.derived
              /\ users' = o.users
    /\ UNCHANGED <<service_principals, operations, app_id_map, org_config, args, pc,
                   logs, current_time, is_spn, entity, error, calls, skipped, emails>>

\* mal_oauth_consent.py lines 60-71: the context used when the user is not found.
OAuthDefaultUser(name) ==
    [user_id |-> name, ip |-> "44.192.30.81", os |-> "Windows 10",
     browser |-> "Chrome", city |-> "Dallas", country |-> "US", asn |-> "AS0000",
     asn_name |-> "GenericISP", is_proxy |-> FALSE,
     display_name |-> <<"capitalize", LocalPart(name)>>]

\* generate_oauth_consent_log(username, output_path, simulator): the entry is
\* built by hand, without _render_template; its uuid4 id is left out.
OAuthConsentOutcome(name, now) ==
    LET user == IF FindUser(name) = {} THEN OAuthDefaultUser(name)
                ELSE users[UserIndex(name)]
    IN  Outcome("written", NoError,
                <<[time |-> Strftime(now),
                   operationName |-> "ConsentToApp",
                   category |-> "ApplicationManagement",
                   result |-> "Success",
                   activityDisplayName |-> "User granted consent to third-party application",
                   loggedByService |-> "Core Directory",
                   initiatedBy |->
                       [user |-> [id |-> <<"user-", "hash", name>>,
                                  displayName |-> Get(user, "display_name", None),
                                  userPrincipalName |-> name,
                                  ipAddress |-> Get(user, "ip", None)]],
                   targetDisplayName |-> "Contoso Phish Portal",
                   requestedPermissions |->
                       "Mail.ReadWrite, offline_access, MailboxSettings.ReadWrite"]>>,
                NoEntity, users)

\* mal_oauth_consent.py main
OAuthConsent ==
    /\ pc = "idle"
    /\ status # "running"
    /\ \E name \in Usernames :
          LET o == OAuthConsentOutcome(name, WallClock)
          IN  /\ scenario' = "oauth_consent"
              /\ username' = name
              /\ status' = o.status
              /\ inj_error' = o.error
              /\ output' = o.output
              /\ derived' = o.derived
              /\ users' = o.users
    /\ UNCHANGED <<service_principals, operations, app_id_map, org_config, args, pc,
                   logs, current_time, is_spn, entity, error, calls, skipped, emails>>

\* phishing_root.py main, lines 13-32: generate_logs is entered with one record
\* and user, application and operation forced.
PhishingRootCall ==
    /\ pc = "idle"
    /\ status # "running"
    /\ \E name \in Usernames :
          /\ username' = name
          /\ force_user' = name
    /\ scenario' = "phishing_root"
    /\ status' = "running"
    /\ inj_error' = NoError
    /\ output' = <<>>
    /\ derived' = NoEntity
    /\ total_logs' = 1
    /\ simulate_start_time' = <<AddSeconds(WallClock, 0 - 60 * 60)>>
    /\ include_failures' = FALSE
    /\ force_app' = "Contoso Phish Portal"
    /\ force_operation' = "ConsentToApp"
    /\ is_attack' = TRUE
    /\ logs' = <<>>
    /\ current_time' = simulate_start_time'[1]
    /\ pc' = "loop"
    /\ UNCHANGED <<config, is_spn, entity, error, calls, skipped, emails>>

\* phishing_root.py main, lines 34-38: the returned logs are written.
PhishingRootWrite ==
    /\ scenario = "phishing_root"
    /\ status = "running"
    /\ pc = "returned"
    /\ output' = logs
    /\ status' = "written"
    /\ UNCHANGED <<config, args, pc, logs, current_time, is_spn, entity, error, calls,
                   skipped, scenario, username, inj_error, derived, emails>>

\* phishing_root.py main: an exception of generate_logs ends the script.
PhishingRootRaise ==
    /\ scenario = "phishing_root"
    /\ status = "running"
    /\ pc = "raised"
    /\ inj_error' = error
    /\ status' = "raised"
    /\ UNCHANGED <<config, args, pc, logs, current_time, is_spn, entity, error, calls,
                   skipped, scenario, username, output, derived, emails>>

\* A generate_logs call for one record after the injections, as benign_activity.py
\* makes it, with or without a forced user and operation.
CallAfterScenario ==
    /\ pc = "idle"
    /\ status # "running"
    /\ total_logs' = 1
    /\ simulate_start_time' = <<StartTime>>
    /\ include_failures' = FALSE
    /\ force_user' \in {None} \cup Usernames
    /\ force_app' = None
    /\ force_operation' \in {None, "InteractiveUserSignIn"}
    /\ is_attack' = FALSE
    /\ logs' = <<>>
    /\ current_time' = simulate_start_time'[1]
    /\ pc' = "loop"
    /\ UNCHANGED <<config, is_spn, entity, error, calls, skipped>>
    /\ UNCHANGED scen

ScenarioInit ==
    /\ users \in UserLists
    /\ service_principals = ConfigServicePrincipals
    /\ operations \in ScenarioCatalogues
    /\ app_id_map \in ApplicationMaps
    /\ org_config = OrgConfig
    /\ pc = "idle"
    /\ total_logs = 0
    /\ simulate_start_time = <<>>
    /\ include_failures = FALSE
    /\ force_user = None
    /\ force_app = None
    /\ force_operation = None
    /\ is_attack = FALSE
    /\ logs = <<>>
    /\ current_time = WallClock
    /\ is_spn = FALSE
    /\ entity = NoEntity
    /\ error = NoError
    /\ calls = <<>>
    /\ skipped = FALSE
    /\ scenario = "none"
    /\ username = None
    /\ status = "idle"
    /\ output = <<>>
    /\ inj_error = NoError
    /\ derived = NoEntity
    /\ emails = <<>>

ScenarioNext ==
    \/ TokenTheft
    \/ MailReceived
    \/ OAuthConsent
    \/ PhishingRootCall
    \/ PhishingRootWrite
    \/ PhishingRootRaise
    \/ CallAfterScenario
    \/ Return
    \/ PickForcedUser
    \/ RaiseUserNotFound
    \/ PickSpn
    \/ PickUser
    \/ RaiseOperationNotFound
    \/ Skip
    \/ Emit
    \/ RenderKeyError

\* Any sequence of scenario injections on one simulator, then one generate_logs
\* call (the phishing root-cause injector being such a call itself).
ScenarioSpec == ScenarioInit /\ [][ScenarioNext]_vars

\* The random draws are independent: an outcome that is possible at every draw
\* of an endless sequence of draws occurs (strong fairness on both outcomes of
\* the actor coin); the interpreter keeps running (weak fairness on Next).
Fairness ==
    /\ WF_vars(Next)
    /\ SF_vars(PickSpn)
    /\ SF_vars(PickUser)

FairSpec == Init /\ [][Next]_vars /\ Fairness

(* ------------------------------ properties ---------------------------- *)

Done == pc \in {"returned", "raised"}

\* The operation's class differs from the actor's kind in call c.
ClassMismatch(c) == ContainsServicePrincipal(c.operation.name) # c.is_spn

\* The record's operation is eligible for failure injection in this call.
FailureEligible(c) ==
    include_failures /\ c.operation.name = "InteractiveUserSignIn" /\ ~c.is_spn

\* C1: for a requested count N >= 0, a call that returns returns exactly N
\* records.
C1_ReturnsExactlyN ==
    (pc = "returned" /\ total_logs >= 0) => Len(logs) = total_logs

\* C1 witness: a call returned the largest requested batch after a skipped
\* iteration.
C1_Witness ==
    pc = "returned" /\ total_logs = MaxLogs /\ Len(logs) = MaxLogs /\ skipped

\* C2: the first record carries the caller-supplied start time (as formatted to
\* whole seconds), and each later timestamp is the previous one plus a jitter
\* of 15 to 45 seconds, so timestamps strictly increase.
C2_TimestampsFollowJitter ==
    /\ (logs # <<>> /\ simulate_start_time # <<>>) =>
          logs[1].timestamp = Strftime(simulate_start_time[1])
    /\ \A i \in 1..(Len(logs) - 1) :
          /\ logs[i + 1].timestamp - logs[i].timestamp >= JitterMin
          /\ logs[i + 1].timestamp - logs[i].timestamp <= JitterMax
          /\ logs[i + 1].timestamp > logs[i].timestamp

\* C2 witness: a batch from a given start time with sub-second part, whose
\* consecutive timestamps differ by the largest jitter.
C2_Witness ==
    /\ pc = "returned"
    /\ simulate_start_time = <<StartTime>>
    /\ Len(logs) >= 2
    /\ logs[1].timestamp = StartTime.sec
    /\ logs[2].timestamp - logs[1].timestamp = JitterMax

\* C3: a forced user, operation or application that is configured appears in
\* every record of the batch, and a forced user is always a user actor.
C3_ForcedValuesInEveryRecord ==
    \A i \in DOMAIN logs :
        /\ (Truthy(force_user) /\ FindUser(force_user) # {}) =>
              /\ logs[i].user_id = force_user
              /\ ~calls[i].is_spn
              /\ logs[i].user_type # "2"
        /\ (Truthy(force_operation) /\ FindOperation(force_operation) # {}) =>
              logs[i].operation = force_operation
        /\ (Truthy(force_app) /\ force_app \in DOMAIN app_id_map) =>
              /\ logs[i].app_display_name = force_app
              /\ logs[i].app_id = app_id_map[force_app]

\* C3 witness: a returned batch with user, operation and application all forced,
\* the forced application differing from the operation's own.
C3_Witness ==
    /\ pc = "returned"
    /\ Len(logs) = MaxLogs
    /\ force_user = "alice@contoso.com"
    /\ force_operation = "InteractiveUserSignIn"
    /\ force_app = "Contoso Phish Portal"
    /\ calls[1].operation.app_display_name # force_app

\* C4: a rendering whose application display name is not a key of the
\* application map returns a record bound to the all-zero identifier; it does
\* not raise.
C4_UnknownAppRendersSentinel ==
    \A i \in DOMAIN calls :
        AppDisplay(calls[i].operation, calls[i].override_app) \notin DOMAIN app_id_map =>
            /\ i \in DOMAIN logs
            /\ logs[i].app_id = ZeroAppId

\* C5: a finished call whose forced user or forced operation is not configured
\* ended in a not-found error naming that value, with no record, whatever the
\* requested count.
C5_UnknownForcedNameRaises ==
    LET badUser == Truthy(force_user) /\ FindUser(force_user) = {}
        badOp == Truthy(force_operation) /\ FindOperation(force_operation) = {}
    IN  (Done /\ total_logs >= 0 /\ (badUser \/ badOp)) =>
            /\ pc = "raised"
            /\ error.type = "ValueError"
            /\ \/ badUser /\ error.name = force_user
               \/ badOp /\ error.name = force_operation
            /\ logs = <<>>

\* C6: the failure flag passed to the renderer is set only when failure
\* injection is enabled, the operation is InteractiveUserSignIn and the actor is
\* not a service principal; every other record carries the organization's
\* default result status and is not marked as a failure.
C6_FailureOnlyWhenEligible ==
    \A i \in DOMAIN calls :
        /\ calls[i].is_failure => FailureEligible(calls[i])
        /\ (i \in DOMAIN logs /\ ~FailureEligible(calls[i])) =>
              /\ logs[i].result_status = org_config.result_status
              /\ logs[i].result_status # "Failure"

\* C6 witness: one batch holds a failed interactive sign-in and a record of
\* another operation with the default status.
C6_Witness ==
    /\ include_failures
    /\ \E i, j \in DOMAIN logs :
          /\ logs[i].operation = "InteractiveUserSignIn"
          /\ logs[i].result_status = "Failure"
          /\ logs[j].operation # "InteractiveUserSignIn"
          /\ logs[j].result_status = "Success"

\* C7: a service-principal record has user type "2", the principal's spn_id as
\* user id and the fixed placeholders in the user-only fields; a user record has
\* user type "10" when its roles contain "guest" and "0" otherwise, never "2".
C7_ActorKindFields ==
    \A i \in DOMAIN logs :
        LET c == calls[i]
            r == logs[i]
        IN  IF c.is_spn
            THEN /\ r.user_type = "2"
                 /\ r.user_id = c.entity.spn_id
                 /\ r.roles = JsonDumps(<<"ServicePrincipal">>)
                 /\ r.device_id = "spn-device"
                 /\ r.os = "Unknown"
                 /\ r.browser = "Unknown"
                 /\ r.user_agent = "AzureAD-Application"
            ELSE /\ r.user_type # "2"
                 /\ r.user_id = c.entity.user_id
                 /\ IF "roles" \in DOMAIN c.entity
                       /\ \E k \in DOMAIN c.entity.roles : c.entity.roles[k] = "guest"
                    THEN r.user_type = "10"
                    ELSE r.user_type = "0"

\* C7 witness: one batch holds a service-principal record and a guest user's
\* record.
C7_Witness ==
    \E i, j \in DOMAIN logs :
        /\ calls[i].is_spn
        /\ logs[i].user_type = "2"
        /\ ~calls[j].is_spn
        /\ logs[j].user_type = "10"

\* C8: in every record the operation's class matches the actor's kind unless
\* the call deliberately fixes both (a forced user with a forced operation); a
\* mismatch never comes from the random actor draw.
C8_ClassMatchesActorKind ==
    \A i \in DOMAIN logs :
        ClassMismatch(calls[i]) => (Truthy(force_user) /\ Truthy(force_operation))

\* C9: every call of generate_logs terminates, by returning or by raising.
C9_AlwaysTerminates == (pc = "loop") ~> Done

\* C10: an iteration skipped for an empty operation pool appends no record and
\* leaves the simulated clock unchanged.
C10_SkipLeavesLogsAndClock ==
    [][(pc = "select" /\ ~Truthy(force_operation) /\ OpsPool(is_spn) = {}) =>
          (logs' = logs /\ current_time' = current_time /\ calls' = calls)]_vars

\* C10 witness: a one-record batch returned after a skipped iteration; the skip
\* came first, and the record still carries the start time.
C10_Witness ==
    /\ pc = "returned"
    /\ skipped
    /\ total_logs = 1
    /\ Len(logs) = 1
    /\ simulate_start_time = <<StartTime>>
    /\ logs[1].timestamp = Strftime(StartTime)
    /\ current_time.sec - StartTime.sec \in JitterMin..JitterMax

\* C13: in a call with the is-attack marker set, the actor kind, the entity,
\* the operation and the failure flag of every record are fixed by the
\* arguments: no step of the call has more than one outcome for them.
C13_AttackSuppressesRandomness ==
    is_attack =>
        /\ (pc = "loop" /\ LoopCond(Len(logs), total_logs)) =>
              Cardinality(ActorChoices) <= 1
        /\ pc = "select" =>
              /\ Cardinality({op.name : op \in OperationChoices}) <= 1
              /\ \A op \in OperationChoices : Cardinality(FailureFlags(op.name)) = 1

\* C14: with an attachment, the (md5, sha256) pair depends on the subject, the
\* URL and the attachment filename only: two build_email_block calls that agree
\* on the three have the same pair, whatever their other arguments and message
\* ids; without include_attachment the block has no Attachment.
C14_DigestsDependOnSubjectUrlName ==
    /\ \A i, j \in DOMAIN emails :
          ( /\ emails[i].args.include_attachment
            /\ emails[j].args.include_attachment
            /\ emails[i].args.subject = emails[j].args.subject
            /\ emails[i].args.url = emails[j].args.url
            /\ emails[i].args.attach_name = emails[j].args.attach_name ) =>
              /\ emails[i].block.Attachment.md5 = emails[j].block.Attachment.md5
              /\ emails[i].block.Attachment.sha256 = emails[j].block.Attachment.sha256
    /\ \A i \in DOMAIN emails :
          emails[i].args.include_attachment <=> "Attachment" \in DOMAIN emails[i].block

\* C14 witness: two calls with the same subject, URL and filename but another
\* recipient, sender, time, MIME type, size and message id, with equal digests.
C14_Witness ==
    /\ Len(emails) = 2
    /\ emails[1].args.include_attachment /\ emails[2].args.include_attachment
    /\ emails[1].args.subject = emails[2].args.subject
    /\ emails[1].args.url = emails[2].args.url
    /\ emails[1].args.attach_name = emails[2].args.attach_name
    /\ emails[1].args.recipient # emails[2].args.recipient
    /\ emails[1].args.attach_size # emails[2].args.attach_size
    /\ emails[1].message_id # emails[2].message_id
    /\ emails[1].block.MessageId # emails[2].block.MessageId
    /\ emails[1].block.Attachment.md5 = emails[2].block.Attachment.md5

\* The two records of a token-theft run for victim v: TokenIssued at T in the
\* victim's own context, then InteractiveUserSignIn at T + 3 minutes in the
\* attacker's context under the victim's user id, neither marked as a failure.
TokenTheftRecordsAsClaimed(v) ==
    /\ Len(output) = 2
    /\ output[1].operation = "TokenIssued"
    /\ output[1].timestamp = Strftime(WallClock)
    /\ output[1].user_id = v.user_id
    /\ output[1].client_ip = v.ip
    /\ output[1].city = v.city
    /\ output[1].country = v.country
    /\ output[1].asn_number = v.asn
    /\ output[1].device_id = v.device_id
    /\ output[1].os = v.os
    /\ output[1].browser = v.browser
    /\ output[1].user_agent = v.user_agent
    /\ output[2].operation = "InteractiveUserSignIn"
    /\ output[2].timestamp = output[1].timestamp + 180
    /\ output[2].user_id = v.user_id
    /\ output[2].client_ip = "203.0.113.99"
    /\ output[2].city = "Moscow"
    /\ output[2].country = "RU"
    /\ output[2].asn_number = "AS12389"
    /\ output[2].is_proxy = "true"
    /\ output[2].device_id = "device-attacker"
    /\ output[2].os = "Kali Linux"
    /\ output[2].browser = "Unknown"
    /\ output[2].user_agent = "curl/8.1.0"
    /\ output[1].result_status # "Failure"
    /\ output[2].result_status # "Failure"

\* C11: for every configured user (the catalogue holding TokenIssued and
\* InteractiveUserSignIn), a token-theft run emits exactly the two records:
\* the victim's TokenIssued, then the attacker's sign-in three minutes later.
C11_TokenTheftEmitsTwoRecords ==
    ( /\ scenario = "token_theft"
      /\ FindUser(username) # {}
      /\ FindOperation("TokenIssued") # {}
      /\ FindOperation("InteractiveUserSignIn") # {} ) =>
        /\ status = "written"
        /\ TokenTheftRecordsAsClaimed(users[UserIndex(username)])

\* C12: every scenario injector given a username that is not configured ends
\* in a not-found error naming the user and writes no record.
C12_UnknownUserAborts ==
    ( /\ scenario # "none"
      /\ status \in {"written", "raised"}
      /\ FindUser(username) = {} ) =>
        /\ status = "raised"
        /\ inj_error.type = "ValueError"
        /\ inj_error.name = username
        /\ output = <<>>

\* Every user record of generate_logs shows the context configured for its user.
LogsShowConfiguredContext ==
    \A i \in DOMAIN logs :
        ~calls[i].is_spn =>
            \E k \in DOMAIN users :
                /\ users[k].user_id = logs[i].user_id
                /\ users[k].ip = logs[i].client_ip
                /\ users[k].city = logs[i].city
                /\ users[k].country = logs[i].country
                /\ users[k].asn = logs[i].asn_number
                /\ users[k].device_id = logs[i].device_id
                /\ users[k].os = logs[i].os
                /\ users[k].browser = logs[i].browser
                /\ users[k].user_agent = logs[i].user_agent
                /\ "email_sender" \notin DOMAIN users[k]

\* C15: no generate_logs step and no scenario injection changes the loaded
\* configuration; the injectors' overrides land on a copy, and a later
\* generate_logs record of the victim shows the configured context.
C15_ConfigurationUnchanged ==
    [][config' = config /\ LogsShowConfiguredContext']_vars

\* C15 witness: after a token-theft run against alice (the attacker copy holding
\* the overridden address), generate_logs returned a record of alice with her
\* configured address and device.
C15_Witness ==
    /\ scenario = "token_theft"
    /\ status = "written"
    /\ username = "alice@contoso.com"
    /\ derived.ip = "203.0.113.99"
    /\ pc = "returned"
    /\ Len(logs) = 1
    /\ logs[1].user_id = "alice@contoso.com"
    /\ logs[1].client_ip = Alice.ip
    /\ logs[1].device_id = Alice.device_id

====
